---- MODULE Spec2Model ----
(***************************************************************************)
(* Model of the two containers of the buffer-pool core:                    *)
(*   - ExtendibleHashTable<K, V>  (src/extendible_hash_table.cpp)          *)
(*   - LRUKReplacer               (src/lru_k_replacer.cpp)                 *)
(* The two components share no state.  Each has its own specification:     *)
(* SpecHT for the hash table and SpecLRU for the replacer.                 *)
(***************************************************************************)
EXTENDS Integers, Sequences, FiniteSets, TLC

\* ------------------------------------------------------------------------
\* Bounds of the model
\* ------------------------------------------------------------------------
\* keys are 0..MaxKey, hashed by the identity (std::hash<int>)
MaxKey == 2
\* values are 1..MaxValue
MaxValue == 2
\* the constructor's bucket_size argument is drawn from 1..MaxBucketSize
MaxBucketSize == 2

Keys == 0..MaxKey
Values == 1..MaxValue

\* ------------------------------------------------------------------------
\* Arithmetic helpers (C++ operators on non-negative integers)
\* ------------------------------------------------------------------------
RECURSIVE Pow2(_)
\* 1 << n
Pow2(n) == IF n = 0 THEN 1 ELSE 2 * Pow2(n - 1)

RECURSIVE BitAnd(_, _)
\* a & b
BitAnd(a, b) ==
  IF a = 0 \/ b = 0 THEN 0
  ELSE (a % 2) * (b % 2) + 2 * BitAnd(a \div 2, b \div 2)

RECURSIVE BitXor(_, _)
\* a ^ b
BitXor(a, b) ==
  IF a = 0 /\ b = 0 THEN 0
  ELSE ((a + b) % 2) + 2 * BitXor(a \div 2, b \div 2)

RECURSIVE BitLen(_)
\* number of bits needed to write n
BitLen(n) == IF n = 0 THEN 0 ELSE 1 + BitLen(n \div 2)

\* number of low hash bits that tell all keys of the domain apart
KeyBits == BitLen(MaxKey)

\* the split loop is followed up to this local depth of the target bucket
DepthCap == KeyBits + 1

\* ------------------------------------------------------------------------
\* Extendible hash table: state
\* ------------------------------------------------------------------------
VARIABLES
  global_depth,   \* global_depth_
  bucket_size,    \* bucket_size_
  num_buckets,    \* num_buckets_
  dir,            \* dir_: function 0..size-1 -> bucket object id
  buckets,        \* heap of live Bucket objects: id -> [depth, list]
  pc,             \* "idle", or "loop" while Insert holds the latch
  cur_key,        \* Insert's key argument while it runs
  cur_val,        \* Insert's value argument while it runs
  ht_ret,         \* outcome of the last completed table operation
  shadow          \* history variable: key -> last value inserted (0: none)

htvars == <<global_depth, bucket_size, num_buckets, dir, buckets, pc,
            cur_key, cur_val, ht_ret, shadow>>

\* std::hash<int>()(key) for the non-negative keys of the model
Hash(key) == key

\* ExtendibleHashTable::IndexOf
IndexOf(gd, key) == BitAnd(Hash(key), Pow2(gd) - 1)

\* Bucket::Bucket(array_size, depth)
NewBucket(depth) == [depth |-> depth, list |-> <<>>]

\* Bucket::IsFull
IsFull(b) == Len(b.list) = bucket_size

\* value of num_buckets_ after construction
InitNumBuckets == 1

\* index of the first item of list with the given key, 0 if there is none
FirstPos(list, key) ==
  IF \E i \in 1..Len(list) : list[i][1] = key
  THEN CHOOSE i \in 1..Len(list) :
         /\ list[i][1] = key
         /\ \A j \in 1..(i - 1) : list[j][1] # key
  ELSE 0

\* Bucket::Find: [found, value]
BucketFind(b, key) ==
  LET p == FirstPos(b.list, key)
  IN IF p = 0 THEN [found |-> FALSE, value |-> 0]
     ELSE [found |-> TRUE, value |-> b.list[p][2]]

\* mutant of BucketRemove: a hit empties the whole bucket
BucketRemoveClear(b, key) ==
  LET p == FirstPos(b.list, key)
  IN IF p = 0 THEN [ok |-> FALSE, bucket |-> b]
     ELSE [ok |-> TRUE, bucket |-> [b EXCEPT !.list = <<>>]]

\* Bucket::Remove: list_.remove(pair) drops every element equal to the pair
BucketRemove(b, key) ==
  LET p == FirstPos(b.list, key)
  IN IF p = 0 THEN [ok |-> FALSE, bucket |-> b]
     ELSE [ok |-> TRUE,
           bucket |-> [b EXCEPT !.list =
                         SelectSeq(b.list, LAMBDA it : it # b.list[p])]]

\* mutant of BucketInsert: the fullness test is inverted
BucketInsertInverted(b, key, value) ==
  IF ~IsFull(b) THEN [ok |-> FALSE, bucket |-> b]
  ELSE [ok |-> TRUE, bucket |-> [b EXCEPT !.list = Append(@, <<key, value>>)]]

\* Bucket::Insert: [ok, bucket]
BucketInsert(b, key, value) ==
  IF IsFull(b) THEN [ok |-> FALSE, bucket |-> b]
  ELSE [ok |-> TRUE, bucket |-> [b EXCEPT !.list = Append(@, <<key, value>>)]]

\* the bucket Find, Remove and Insert work on
TargetId(key) == dir[IndexOf(global_depth, key)]
Target(key) == buckets[TargetId(key)]

\* ExtendibleHashTable::GetLocalDepthInternal
LocalDepth(dir_index) == buckets[dir[dir_index]].depth

\* ExtendibleHashTable::Find, as a function of the state
FindResult(key) == BucketFind(Target(key), key)

\* mutant of DoubleDir: each slot is copied next to itself (dir[2i], dir[2i+1])
DoubleDirInterleaved(d) ==
  LET dir_num == Cardinality(DOMAIN d)
  IN [i \in 0..(2 * dir_num - 1) |-> d[i \div 2]]

\* mutant of DoubleDir: the directory grows by one slot only
DoubleDirByOne(d) ==
  LET dir_num == Cardinality(DOMAIN d)
  IN [i \in 0..dir_num |-> IF i < dir_num THEN d[i] ELSE d[i - dir_num]]

\* directory doubling: resize to twice the size, dir_[i + dir_num] = dir_[i]
DoubleDir(d) ==
  LET dir_num == Cardinality(DOMAIN d)
  IN [i \in 0..(2 * dir_num - 1) |-> IF i < dir_num THEN d[i] ELSE d[i - dir_num]]

RECURSIVE Redistribute(_, _, _, _)
\* the redistribution loop: the items of the old bucket, in order, go to
\* new_bucket1 (hash & mask = 0) or new_bucket2, each through Bucket::Insert
Redistribute(items, mask, nb1, nb2) ==
  IF items = <<>> THEN <<nb1, nb2>>
  ELSE LET item == Head(items)
           hash_key == BitAnd(Hash(item[1]), mask)
       IN IF hash_key = 0
          THEN Redistribute(Tail(items), mask,
                            BucketInsert(nb1, item[1], item[2]).bucket, nb2)
          ELSE Redistribute(Tail(items), mask, nb1,
                            BucketInsert(nb2, item[1], item[2]).bucket)

\* mutant of Rewire: the two new buckets are exchanged
RewireSwapped(d, old, mask, id1, id2) ==
  [i \in DOMAIN d |->
     IF d[i] = old
     THEN IF BitAnd(i, mask) = 0 THEN id2 ELSE id1
     ELSE d[i]]

\* mutant of Rewire: the slot's lowest bit decides instead of the mask bit
RewireParity(d, old, mask, id1, id2) ==
  [i \in DOMAIN d |->
     IF d[i] = old
     THEN IF BitAnd(i, 1) = 0 THEN id1 ELSE id2
     ELSE d[i]]

\* mutant of Rewire: every slot of the old bucket gets the first new bucket
RewireFirstOnly(d, old, mask, id1, id2) ==
  [i \in DOMAIN d |-> IF d[i] = old THEN id1 ELSE d[i]]

\* the rewiring loop: every slot that pointed to the old bucket
Rewire(d, old, mask, id1, id2) ==
  [i \in DOMAIN d |->
     IF d[i] = old
     THEN IF BitAnd(i, mask) = 0 THEN id1 ELSE id2
     ELSE d[i]]

\* address of a newly allocated Bucket: any id not in use
FreshId(used) == CHOOSE n \in 0..Cardinality(used) : n \notin used

\* the final part of Insert: overwrite in place, or Bucket::Insert
Upsert(b, key, value) ==
  LET p == FirstPos(b.list, key)
  IN IF p # 0
     THEN [b EXCEPT !.list[p] = <<key, value>>]
     ELSE BucketInsert(b, key, value).bucket

\* ------------------------------------------------------------------------
\* Extendible hash table: operations
\* ------------------------------------------------------------------------
\* ExtendibleHashTable::ExtendibleHashTable(bucket_size)
HTConstruct(size) ==
  /\ bucket_size = size
  /\ global_depth = 0
  /\ num_buckets = InitNumBuckets
  /\ dir = [i \in {0} |-> 0]
  /\ buckets = [id \in {0} |-> NewBucket(0)]
  /\ pc = "idle"
  /\ cur_key = 0
  /\ cur_val = 0
  /\ ht_ret = [op |-> "none", key |-> 0, found |-> FALSE, value |-> 0]
  /\ shadow = [key \in Keys |-> 0]

\* the table after construction, for every bucket size of the model
HTInit == \E size \in 1..MaxBucketSize : HTConstruct(size)

\* ExtendibleHashTable::Find
Find(key) ==
  /\ pc = "idle"
  /\ ht_ret' = [op |-> "Find", key |-> key,
                found |-> FindResult(key).found, value |-> FindResult(key).value]
  /\ UNCHANGED <<global_depth, bucket_size, num_buckets, dir, buckets, pc,
                 cur_key, cur_val, shadow>>

\* ExtendibleHashTable::Remove
Remove(key) ==
  /\ pc = "idle"
  /\ LET r == BucketRemove(Target(key), key)
     IN /\ buckets' = [buckets EXCEPT ![TargetId(key)] = r.bucket]
        /\ ht_ret' = [op |-> "Remove", key |-> key, found |-> r.ok, value |-> 0]
  /\ shadow' = [shadow EXCEPT ![key] = 0]
  /\ UNCHANGED <<global_depth, bucket_size, num_buckets, dir, pc, cur_key, cur_val>>

\* ExtendibleHashTable::Insert: the call takes the latch
InsertCall(key, value) ==
  /\ pc = "idle"
  /\ pc' = "loop"
  /\ cur_key' = key
  /\ cur_val' = value
  /\ UNCHANGED <<global_depth, bucket_size, num_buckets, dir, buckets,
                 ht_ret, shadow>>

\* ExtendibleHashTable::Insert: one iteration of the while loop
SplitStep ==
  /\ pc = "loop"
  /\ IsFull(Target(cur_key))
  /\ Target(cur_key).depth < DepthCap
  /\ LET index == IndexOf(global_depth, cur_key)
         bucket == dir[index]
         depth == buckets[bucket].depth
         grow == depth = global_depth
         dir1 == IF grow THEN DoubleDir(dir) ELSE dir
         mask == Pow2(depth)
         id1 == FreshId(DOMAIN buckets)
         id2 == FreshId(DOMAIN buckets \cup {id1})
         nbs == Redistribute(buckets[bucket].list, mask,
                             NewBucket(depth + 1), NewBucket(depth + 1))
     IN /\ global_depth' = IF grow THEN global_depth + 1 ELSE global_depth
        /\ num_buckets' = num_buckets + 1
        /\ dir' = Rewire(dir1, bucket, mask, id1, id2)
        /\ buckets' = [id \in (DOMAIN buckets \ {bucket}) \cup {id1, id2} |->
                         IF id = id1 THEN nbs[1]
                         ELSE IF id = id2 THEN nbs[2]
                         ELSE buckets[id]]
  /\ UNCHANGED <<bucket_size, pc, cur_key, cur_val, ht_ret, shadow>>

\* ExtendibleHashTable::Insert: the loop has ended; upsert and return
InsertFinish ==
  /\ pc = "loop"
  /\ ~IsFull(Target(cur_key))
  /\ buckets' = [buckets EXCEPT ![TargetId(cur_key)] =
                   Upsert(Target(cur_key), cur_key, cur_val)]
  /\ pc' = "idle"
  /\ ht_ret' = [op |-> "Insert", key |-> cur_key, found |-> TRUE, value |-> cur_val]
  /\ shadow' = [shadow EXCEPT ![cur_key] = cur_val]
  /\ UNCHANGED <<global_depth, bucket_size, num_buckets, dir, cur_key, cur_val>>

\* ------------------------------------------------------------------------
\* LRU-K replacer: state
\* ------------------------------------------------------------------------
\* the constructor's num_frames argument (replacer_size_)
NumFrames == 2
\* the constructor's k argument is drawn from 1..MaxK
MaxK == 2
\* RecordAccess is followed while current_timestamp_ is below MaxTime
MaxTime == 5

\* std::numeric_limits<size_t>::max(); stands above every timestamp of the model
SizeTMax == 2147483647

VARIABLES
  frames,             \* frames_: frame id -> [history, k_distance, is_evictable]
  curr_size,          \* curr_size_
  current_timestamp,  \* current_timestamp_
  k,                  \* k_
  lru_ret             \* outcome of the last replacer operation

lruvars == <<frames, curr_size, current_timestamp, k, lru_ret>>

\* callers of the replacer: threads that take latch_ around each operation
VARIABLES
  latch,     \* latch_: 0 when free, else the thread that holds it
  tpc,       \* per thread: "idle", or "pushed" inside RecordAccess
  targ,      \* per thread: the frame_id argument of its RecordAccess
  ra_log,    \* history variable: timestamps appended, in order of appending
  ra_done    \* history variable: number of RecordAccess calls that returned

concvars == <<latch, tpc, targ, ra_log, ra_done>>

vars == <<htvars, lruvars, concvars>>

replacer_size == NumFrames

\* frame ids the callers pass: every valid one and one that is too large
FrameArgs == 0..NumFrames

\* a default-constructed Frame, as frames_[frame_id] creates it
NewFrame == [history |-> <<>>, k_distance |-> 0, is_evictable |-> FALSE]

\* mutant of SizeAdd: a decrement is lost
SizeAddNoDec(x, delta) == IF delta = 1 THEN x + 1 ELSE x

\* size_t arithmetic of curr_size_ (delta is 1 or -1)
SizeAdd(x, delta) ==
  IF delta = -1 /\ x = 0 THEN SizeTMax
  ELSE IF delta = 1 /\ x = SizeTMax THEN 0
  ELSE x + delta

\* LRUKReplacer::CalcKDistance
CalcKDistance(frame, now) ==
  IF Len(frame.history) < k THEN SizeTMax
  ELSE now - frame.history[1 + (k - 1)]

\* LRUKReplacer::UpdateKDistance
UpdateKDistance(frame, now) ==
  [frame EXCEPT !.k_distance = CalcKDistance(frame, now)]

\* mutant of InvalidFrameId: the bound is off by one
InvalidFrameIdOffByOne(frame_id) == frame_id > replacer_size

\* the range check of RecordAccess and SetEvictable
InvalidFrameId(frame_id) == frame_id >= replacer_size

\* mutant of ScanOne: equal k-distances are not compared by first access
ScanOneNoTie(acc, fid, frame) ==
  IF ~frame.is_evictable THEN acc
  ELSE IF frame.k_distance > acc.max_k_distance
       THEN [victim_id |-> fid,
             max_k_distance |-> frame.k_distance,
             earliest_access |-> IF frame.history # <<>>
                                 THEN Head(frame.history)
                                 ELSE acc.earliest_access]
       ELSE acc

\* mutant of ScanOne: among equal k-distances the latest first access wins
ScanOneLatest(acc, fid, frame) ==
  IF ~frame.is_evictable THEN acc
  ELSE IF \/ frame.k_distance > acc.max_k_distance
          \/ /\ frame.k_distance = acc.max_k_distance
             /\ frame.history # <<>>
             /\ Head(frame.history) > acc.earliest_access
       THEN [victim_id |-> fid,
             max_k_distance |-> frame.k_distance,
             earliest_access |-> IF frame.history # <<>>
                                 THEN Head(frame.history)
                                 ELSE acc.earliest_access]
       ELSE acc

\* mutant of ScanOne: pinned frames take part in the scan
ScanOneIgnorePin(acc, fid, frame) ==
  IF \/ frame.k_distance > acc.max_k_distance
     \/ /\ frame.k_distance = acc.max_k_distance
        /\ frame.history # <<>>
        /\ Head(frame.history) < acc.earliest_access
  THEN [victim_id |-> fid,
        max_k_distance |-> frame.k_distance,
        earliest_access |-> IF frame.history # <<>>
                            THEN Head(frame.history)
                            ELSE acc.earliest_access]
  ELSE acc

\* the body of the scan loop of Evict for one map entry
ScanOne(acc, fid, frame) ==
  IF ~frame.is_evictable THEN acc
  ELSE IF \/ frame.k_distance > acc.max_k_distance
          \/ /\ frame.k_distance = acc.max_k_distance
             /\ frame.history # <<>>
             /\ Head(frame.history) < acc.earliest_access
       THEN [victim_id |-> fid,
             max_k_distance |-> frame.k_distance,
             earliest_access |-> IF frame.history # <<>>
                                 THEN Head(frame.history)
                                 ELSE acc.earliest_access]
       ELSE acc

RECURSIVE ScanFrom(_, _)
\* the scan loop of Evict over the map entries in iteration order
ScanFrom(acc, order) ==
  IF order = <<>> THEN acc
  ELSE ScanFrom(ScanOne(acc, Head(order), frames[Head(order)]), Tail(order))

\* the scan of Evict from its initial victim_id, max_k_distance, earliest_access
EvictScan(order) ==
  ScanFrom([victim_id |-> -1, max_k_distance |-> 0,
            earliest_access |-> current_timestamp], order)

\* the orders in which a map with key set S may be iterated
Orders(S) ==
  {o \in [1..Cardinality(S) -> S] : \A i, j \in 1..Cardinality(S) : i # j => o[i] # o[j]}

\* ------------------------------------------------------------------------
\* LRU-K replacer: operations
\* ------------------------------------------------------------------------
\* LRUKReplacer::LRUKReplacer(num_frames, k)
LRUConstruct(num_k) ==
  /\ k = num_k
  /\ frames = << >>
  /\ curr_size = 0
  /\ current_timestamp = 0
  /\ lru_ret = [op |-> "none", fid |-> 0, status |-> "ok", victim |-> -1]

\* the replacer after construction, for every k of the model
LRUInit == \E num_k \in 1..MaxK : LRUConstruct(num_k)

\* mutant of RecordAccess: the history is never cut back to k entries
RecordAccessNoCap(frame_id) ==
  IF InvalidFrameId(frame_id)
  THEN /\ lru_ret' = [op |-> "RecordAccess", fid |-> frame_id,
                      status |-> "InvalidFrameId", victim |-> -1]
       /\ UNCHANGED <<frames, curr_size, current_timestamp, k>>
  ELSE /\ current_timestamp < MaxTime
       /\ LET frame == IF frame_id \in DOMAIN frames THEN frames[frame_id] ELSE NewFrame
              pushed == Append(frame.history, current_timestamp)
              updated == [frame EXCEPT !.history = pushed]
          IN frames' = [id \in DOMAIN frames \cup {frame_id} |->
                          IF id = frame_id THEN updated ELSE frames[id]]
       /\ current_timestamp' = current_timestamp + 1
       /\ lru_ret' = [op |-> "RecordAccess", fid |-> frame_id,
                      status |-> "ok", victim |-> -1]
       /\ UNCHANGED <<curr_size, k>>

\* LRUKReplacer::RecordAccess
RecordAccess(frame_id) ==
  IF InvalidFrameId(frame_id)
  THEN /\ lru_ret' = [op |-> "RecordAccess", fid |-> frame_id,
                      status |-> "InvalidFrameId", victim |-> -1]
       /\ UNCHANGED <<frames, curr_size, current_timestamp, k>>
  ELSE /\ current_timestamp < MaxTime
       /\ LET frame == IF frame_id \in DOMAIN frames THEN frames[frame_id] ELSE NewFrame
              pushed == Append(frame.history, current_timestamp)
              capped == IF Len(pushed) > k THEN Tail(pushed) ELSE pushed
              updated == UpdateKDistance([frame EXCEPT !.history = capped],
                                         current_timestamp)
          IN frames' = [id \in DOMAIN frames \cup {frame_id} |->
                          IF id = frame_id THEN updated ELSE frames[id]]
       /\ current_timestamp' = current_timestamp + 1
       /\ lru_ret' = [op |-> "RecordAccess", fid |-> frame_id,
                      status |-> "ok", victim |-> -1]
       /\ UNCHANGED <<curr_size, k>>

\* mutant of SetEvictable: curr_size_ is adjusted without looking at the old flag
SetEvictableNoTransition(frame_id, set_evictable) ==
  IF InvalidFrameId(frame_id)
  THEN /\ lru_ret' = [op |-> "SetEvictable", fid |-> frame_id,
                      status |-> "InvalidFrameId", victim |-> -1]
       /\ UNCHANGED <<frames, curr_size, current_timestamp, k>>
  ELSE /\ lru_ret' = [op |-> "SetEvictable", fid |-> frame_id,
                      status |-> "ok", victim |-> -1]
       /\ IF frame_id \notin DOMAIN frames
          THEN UNCHANGED <<frames, curr_size>>
          ELSE /\ frames' = [frames EXCEPT ![frame_id].is_evictable = set_evictable]
               /\ curr_size' = SizeAdd(curr_size, IF set_evictable THEN 1 ELSE -1)
       /\ UNCHANGED <<current_timestamp, k>>

\* LRUKReplacer::SetEvictable
SetEvictable(frame_id, set_evictable) ==
  IF InvalidFrameId(frame_id)
  THEN /\ lru_ret' = [op |-> "SetEvictable", fid |-> frame_id,
                      status |-> "InvalidFrameId", victim |-> -1]
       /\ UNCHANGED <<frames, curr_size, current_timestamp, k>>
  ELSE /\ lru_ret' = [op |-> "SetEvictable", fid |-> frame_id,
                      status |-> "ok", victim |-> -1]
       /\ IF frame_id \notin DOMAIN frames
          THEN UNCHANGED <<frames, curr_size>>
          ELSE IF frames[frame_id].is_evictable # set_evictable
               THEN /\ frames' = [frames EXCEPT ![frame_id].is_evictable = set_evictable]
                    /\ curr_size' = SizeAdd(curr_size, IF set_evictable THEN 1 ELSE -1)
               ELSE UNCHANGED <<frames, curr_size>>
       /\ UNCHANGED <<current_timestamp, k>>

\* mutant of LRURemove: the pin state is not checked
LRURemoveNoCheck(frame_id) ==
  IF frame_id \notin DOMAIN frames
  THEN /\ lru_ret' = [op |-> "Remove", fid |-> frame_id,
                      status |-> "ok", victim |-> -1]
       /\ UNCHANGED <<frames, curr_size, current_timestamp, k>>
  ELSE /\ frames' = [id \in DOMAIN frames \ {frame_id} |-> frames[id]]
       /\ curr_size' = SizeAdd(curr_size, -1)
       /\ lru_ret' = [op |-> "Remove", fid |-> frame_id,
                      status |-> "ok", victim |-> -1]
       /\ UNCHANGED <<current_timestamp, k>>

\* LRUKReplacer::Remove (the replacer's; the table's is Remove)
LRURemove(frame_id) ==
  IF frame_id \notin DOMAIN frames
  THEN /\ lru_ret' = [op |-> "Remove", fid |-> frame_id,
                      status |-> "ok", victim |-> -1]
       /\ UNCHANGED <<frames, curr_size, current_timestamp, k>>
  ELSE IF ~frames[frame_id].is_evictable
       THEN /\ lru_ret' = [op |-> "Remove", fid |-> frame_id,
                           status |-> "NonEvictableRemoval", victim |-> -1]
            /\ UNCHANGED <<frames, curr_size, current_timestamp, k>>
       ELSE /\ frames' = [id \in DOMAIN frames \ {frame_id} |-> frames[id]]
            /\ curr_size' = SizeAdd(curr_size, -1)
            /\ lru_ret' = [op |-> "Remove", fid |-> frame_id,
                           status |-> "ok", victim |-> -1]
            /\ UNCHANGED <<current_timestamp, k>>

\* LRUKReplacer::Evict
Evict ==
  IF curr_size = 0
  THEN /\ lru_ret' = [op |-> "Evict", fid |-> 0, status |-> "false", victim |-> -1]
       /\ UNCHANGED <<frames, curr_size, current_timestamp, k>>
  ELSE \E order \in Orders(DOMAIN frames) :
         LET victim_id == EvictScan(order).victim_id
         IN IF victim_id # -1
            THEN /\ frames' = [id \in DOMAIN frames \ {victim_id} |-> frames[id]]
                 /\ curr_size' = SizeAdd(curr_size, -1)
                 /\ lru_ret' = [op |-> "Evict", fid |-> 0,
                                status |-> "ok", victim |-> victim_id]
                 /\ UNCHANGED <<current_timestamp, k>>
            ELSE /\ lru_ret' = [op |-> "Evict", fid |-> 0,
                                status |-> "false", victim |-> -1]
                 /\ UNCHANGED <<frames, curr_size, current_timestamp, k>>

\* LRUKReplacer::Size
Size == curr_size

\* ------------------------------------------------------------------------
\* LRU-K replacer called by several threads
\* ------------------------------------------------------------------------
\* number of threads that call the replacer
NumThreads == 2
\* the threads' RecordAccess is followed while current_timestamp_ is below this
ConcMaxTime == 3

Threads == 1..NumThreads

\* no thread is inside an operation
ConcIdle ==
  /\ latch = 0
  /\ tpc = [t \in Threads |-> "idle"]
  /\ targ = [t \in Threads |-> 0]
  /\ ra_log = <<>>
  /\ ra_done = 0

\* mutant of LatchFree: the operations do not take the latch
LatchIgnored == TRUE

\* std::scoped_lock<std::mutex> lock(latch_) can be taken
LatchFree == latch = 0

\* RecordAccess by thread t, lines 89-105: lock, range check, append the
\* timestamp, cap the history, refresh the cached k-distance
ThreadRecordAccessPush(t, frame_id) ==
  /\ tpc[t] = "idle"
  /\ LatchFree
  /\ IF InvalidFrameId(frame_id)
     THEN /\ lru_ret' = [op |-> "RecordAccess", fid |-> frame_id,
                         status |-> "InvalidFrameId", victim |-> -1]
          /\ UNCHANGED <<frames, curr_size, current_timestamp, k, concvars>>
     ELSE /\ current_timestamp < ConcMaxTime
          /\ LET frame == IF frame_id \in DOMAIN frames THEN frames[frame_id] ELSE NewFrame
                 pushed == Append(frame.history, current_timestamp)
                 capped == IF Len(pushed) > k THEN Tail(pushed) ELSE pushed
                 updated == UpdateKDistance([frame EXCEPT !.history = capped],
                                            current_timestamp)
             IN frames' = [id \in DOMAIN frames \cup {frame_id} |->
                             IF id = frame_id THEN updated ELSE frames[id]]
          /\ latch' = t
          /\ tpc' = [tpc EXCEPT ![t] = "pushed"]
          /\ targ' = [targ EXCEPT ![t] = frame_id]
          /\ ra_log' = Append(ra_log, current_timestamp)
          /\ UNCHANGED <<curr_size, current_timestamp, k, lru_ret, ra_done>>

\* RecordAccess by thread t, line 106 and the return: tick, unlock
ThreadRecordAccessTick(t) ==
  /\ tpc[t] = "pushed"
  /\ current_timestamp' = current_timestamp + 1
  /\ latch' = 0
  /\ tpc' = [tpc EXCEPT ![t] = "idle"]
  /\ ra_done' = ra_done + 1
  /\ lru_ret' = [op |-> "RecordAccess", fid |-> targ[t],
                 status |-> "ok", victim |-> -1]
  /\ UNCHANGED <<frames, curr_size, k, targ, ra_log>>

\* SetEvictable, Remove or Evict by thread t: lock, whole body, unlock
ThreadOther(t) ==
  /\ tpc[t] = "idle"
  /\ LatchFree
  /\ \/ \E f \in FrameArgs, b \in BOOLEAN : SetEvictable(f, b)
     \/ \E f \in FrameArgs : LRURemove(f)
     \/ Evict
  /\ UNCHANGED concvars

\* ------------------------------------------------------------------------
\* Specifications
\* ------------------------------------------------------------------------
HTNext ==
  \/ \E key \in Keys : Find(key) /\ UNCHANGED <<lruvars, concvars>>
  \/ \E key \in Keys : Remove(key) /\ UNCHANGED <<lruvars, concvars>>
  \/ \E key \in Keys, value \in Values : InsertCall(key, value) /\ UNCHANGED <<lruvars, concvars>>
  \/ SplitStep /\ UNCHANGED <<lruvars, concvars>>
  \/ InsertFinish /\ UNCHANGED <<lruvars, concvars>>

LRUNext ==
  \/ \E f \in FrameArgs : RecordAccess(f) /\ UNCHANGED <<htvars, concvars>>
  \/ \E f \in FrameArgs, b \in BOOLEAN : SetEvictable(f, b) /\ UNCHANGED <<htvars, concvars>>
  \/ \E f \in FrameArgs : LRURemove(f) /\ UNCHANGED <<htvars, concvars>>
  \/ Evict /\ UNCHANGED <<htvars, concvars>>

\* the hash table, next to a replacer that is not used
InitHT == HTInit /\ LRUConstruct(1) /\ ConcIdle
SpecHT == InitHT /\ [][HTNext]_vars

\* the replacer, next to a hash table that is not used
InitLRU == LRUInit /\ HTConstruct(1) /\ ConcIdle
SpecLRU == InitLRU /\ [][LRUNext]_vars

ConcNext ==
  \/ \E t \in Threads, f \in FrameArgs :
       ThreadRecordAccessPush(t, f) /\ UNCHANGED htvars
  \/ \E t \in Threads : ThreadRecordAccessTick(t) /\ UNCHANGED htvars
  \/ \E t \in Threads : ThreadOther(t) /\ UNCHANGED htvars

\* the replacer called by NumThreads threads
InitConc == LRUInit /\ HTConstruct(1) /\ ConcIdle
SpecConc == InitConc /\ [][ConcNext]_vars

\* frame_id_t is a signed int: the arguments of the signed callers
SignedArgs == -1..NumFrames

SignedNext ==
  \/ \E f \in SignedArgs : RecordAccess(f) /\ UNCHANGED <<htvars, concvars>>
  \/ \E f \in SignedArgs, b \in BOOLEAN : SetEvictable(f, b) /\ UNCHANGED <<htvars, concvars>>
  \/ \E f \in SignedArgs : LRURemove(f) /\ UNCHANGED <<htvars, concvars>>
  \/ Evict /\ UNCHANGED <<htvars, concvars>>

\* the replacer called with every signed frame id
InitSigned == LRUInit /\ HTConstruct(1) /\ ConcIdle
SpecSigned == InitSigned /\ [][SignedNext]_vars

\* ------------------------------------------------------------------------
\* Hash table: properties
\* ------------------------------------------------------------------------
\* what Find must answer for a key according to the calls made so far
Expected(key) ==
  IF shadow[key] = 0 THEN [found |-> FALSE, value |-> 0]
  ELSE [found |-> TRUE, value |-> shadow[key]]

\* C1: with bucket_size >= 2, between operations Find(k) reports the value of
\* the last Insert(k, v) for every key inserted and not removed since, and
\* reports "not found" for every other key; splits and directory doubling
\* neither lose nor misplace a key.
C1_Reachability ==
  (pc = "idle" /\ bucket_size >= 2) =>
    \A key \in Keys : FindResult(key) = Expected(key)

\* C1 witness: after a split, with two keys stored (one under its second
\* value), a Remove has just taken a stored key out.
C1_Witness ==
  /\ pc = "idle"
  /\ bucket_size >= 2
  /\ num_buckets >= 2
  /\ ht_ret.op = "Remove" /\ ht_ret.found
  /\ \E k1, k2 \in Keys : k1 # k2 /\ shadow[k1] = 2 /\ shadow[k2] = 1

\* C2: an Insert of a key that is already stored changes neither
\* global_depth, nor the directory, nor any local depth, nor num_buckets.
C2_UpsertNoGrowth ==
  [][(pc = "loop" /\ FindResult(cur_key).found) =>
       /\ global_depth' = global_depth
       /\ dir' = dir
       /\ num_buckets' = num_buckets
       /\ \A i \in DOMAIN dir : buckets'[dir'[i]].depth = LocalDepth(i)]_vars

\* C3: every Insert terminates.  The hash is injective on Keys and every key
\* is below 2^KeyBits, so a bucket of local depth KeyBits holds at most one
\* distinct key and no further split can relieve it: an Insert terminates
\* exactly if its loop never finds the target bucket full at local depth
\* KeyBits or more.
C3_InsertTerminates ==
  (pc = "loop" /\ IsFull(Target(cur_key))) => Target(cur_key).depth < KeyBits

\* C4 as stated: two slots share a bucket iff (i XOR j) < (1 << local depth).
C4_SharingXorBelow ==
  \A i, j \in DOMAIN dir :
    (dir[i] = dir[j]) <=> (BitXor(i, j) < Pow2(LocalDepth(i)))

\* C4 amended: two slots share a bucket iff i XOR j has no bit set among the
\* low local_depth(dir[i]) bits, that is (i XOR j) mod (1 << local depth) = 0.
C4_SharingXorLowBits ==
  \A i, j \in DOMAIN dir :
    (dir[i] = dir[j]) <=> (BitXor(i, j) % Pow2(LocalDepth(i)) = 0)

\* C4 witness: two different slots share a bucket although their XOR is not
\* below 1 << local depth.
C4_Witness ==
  \E i, j \in DOMAIN dir :
    /\ i # j
    /\ dir[i] = dir[j]
    /\ BitXor(i, j) >= Pow2(LocalDepth(i))

\* C5: two slots reference the same bucket b iff they agree on their low
\* local_depth(b) bits.
C5_AliasLowBits ==
  \A i, j \in DOMAIN dir :
    (dir[i] = dir[j]) <=>
      (i % Pow2(LocalDepth(i)) = j % Pow2(LocalDepth(i)))

\* C5 witness: the directory has four or more slots, some bucket is shared by
\* several slots (a split below the global depth left it, or doubling did) and
\* some bucket has the full global depth.
C5_Witness ==
  /\ global_depth >= 2
  /\ \E i, j \in DOMAIN dir : i # j /\ dir[i] = dir[j]
  /\ \E i \in DOMAIN dir : LocalDepth(i) = global_depth
  /\ \E i \in DOMAIN dir : LocalDepth(i) = 1 /\ buckets[dir[i]].list # <<>>

\* C6, state part: the directory has 2^global_depth slots and no local depth
\* exceeds the global depth.
C6_Sizing ==
  /\ DOMAIN dir = 0..(Pow2(global_depth) - 1)
  /\ \A i \in DOMAIN dir : LocalDepth(i) <= global_depth

\* C6, step part: global_depth never decreases; it changes only together with
\* a doubling of the directory, by exactly one, in a split of a bucket whose
\* local depth equals the global depth.
C6_Growth ==
  /\ global_depth' >= global_depth
  /\ (global_depth' # global_depth \/ DOMAIN dir' # DOMAIN dir) =>
       /\ global_depth' = global_depth + 1
       /\ Cardinality(DOMAIN dir') = 2 * Cardinality(DOMAIN dir)
       /\ pc = "loop"
       /\ Target(cur_key).depth = global_depth
  /\ (pc = "loop" /\ pc' = "loop" /\ Target(cur_key).depth < global_depth) =>
       global_depth' = global_depth

\* C6: directory length is 2^global_depth, local depths are bounded by the
\* global depth, and the global depth grows by one per doubling only.
C6_DirectorySizing == []C6_Sizing /\ [][C6_Growth]_vars

\* C6 witness: an Insert has finished after the directory was doubled twice,
\* and one bucket still has a local depth below the global depth.
C6_Witness ==
  /\ global_depth = 2
  /\ num_buckets = 3
  /\ pc = "idle"
  /\ ht_ret.op = "Insert"
  /\ \E i \in DOMAIN dir : LocalDepth(i) < global_depth

\* ------------------------------------------------------------------------
\* Replacer: properties
\* ------------------------------------------------------------------------
\* the stored frames that are evictable
Evictable == {f \in DOMAIN frames : frames[f].is_evictable}

\* C7: Size() is the number of stored frames marked evictable, whatever calls
\* were made, failed ones included.
C7_SizeAccounting == Size = Cardinality(Evictable)

\* C7 witness: a call has just failed while one of two stored frames is
\* evictable.
C7_Witness ==
  /\ lru_ret.status = "NonEvictableRemoval"
  /\ Cardinality(DOMAIN frames) = 2
  /\ Size = 1

\* fewer than k recorded accesses: backward k-distance +infinity
InfiniteDistance(frame) == Len(frame.history) < k

\* backward k-distance of a frame with k or more accesses: now minus the
\* timestamp of its k-th most recent access
BackwardKDistance(frame, now) ==
  now - frame.history[Len(frame.history) - k + 1]

\* frame v is a correct LRU-K victim among the evictable frames
IsLRUKVictim(v) ==
  /\ v \in Evictable
  /\ \A g \in Evictable :
       \/ /\ InfiniteDistance(frames[v])
          /\ InfiniteDistance(frames[g]) =>
               Head(frames[v].history) <= Head(frames[g].history)
       \/ /\ ~InfiniteDistance(frames[v])
          /\ ~InfiniteDistance(frames[g])
          /\ BackwardKDistance(frames[g], current_timestamp)
               <= BackwardKDistance(frames[v], current_timestamp)

\* the step is a call of Evict
EvictStep == lru_ret'.op = "Evict" /\ lru_ret' # lru_ret

\* C8: whenever Evict succeeds, the victim is evictable and has the maximum
\* backward k-distance among the evictable frames; +infinity beats every
\* finite distance and ties at +infinity go to the earliest first access.
C8_VictimSelection ==
  [][(EvictStep /\ lru_ret'.status = "ok") => IsLRUKVictim(lru_ret'.victim)]_vars

\* C8 witness: with k = 2, Evict has just chosen a victim and left behind an
\* evictable frame with two accesses and an evictable frame with one access,
\* or two evictable frames with two accesses each.
C8_Witness ==
  /\ lru_ret.op = "Evict" /\ lru_ret.status = "ok"
  /\ k = 2
  /\ \E g \in Evictable : Len(frames[g].history) = 2

\* C9: Evict fails exactly when no stored frame is evictable (Size() = 0) and
\* then changes nothing; otherwise it succeeds, removes exactly the victim's
\* record, decrements Size() by one and leaves every other frame as it was.
C9_EvictOutcome ==
  [][EvictStep =>
       /\ (lru_ret'.status = "false") <=> (Size = 0)
       /\ (lru_ret'.status = "false") <=> (Evictable = {})
       /\ lru_ret'.status \in {"false", "ok"}
       /\ lru_ret'.status = "false" =>
            UNCHANGED <<frames, curr_size, current_timestamp>>
       /\ lru_ret'.status = "ok" =>
            /\ lru_ret'.victim \in DOMAIN frames
            /\ DOMAIN frames' = DOMAIN frames \ {lru_ret'.victim}
            /\ \A f \in DOMAIN frames' : frames'[f] = frames[f]
            /\ Size' = Size - 1
            /\ current_timestamp' = current_timestamp]_vars

\* C9 witness: Evict has just failed although frames are stored (all pinned).
C9_WitnessFail ==
  /\ lru_ret.op = "Evict" /\ lru_ret.status = "false"
  /\ DOMAIN frames # {}

\* C9 witness: Evict has just succeeded and left one pinned and no evictable
\* frame, or one evictable frame.
C9_Witness ==
  /\ lru_ret.op = "Evict" /\ lru_ret.status = "ok"
  /\ DOMAIN frames # {}

\* C10: RecordAccess(f) and SetEvictable(f, flag) with f >= replacer_size end
\* in InvalidFrameId and change nothing: no frame record, no history entry, no
\* change of curr_size, no tick of current_timestamp.
C10_InvalidFrameId ==
  [][(/\ lru_ret' # lru_ret
      /\ lru_ret'.op \in {"RecordAccess", "SetEvictable"}
      /\ lru_ret'.fid >= replacer_size) =>
       /\ lru_ret'.status = "InvalidFrameId"
       /\ UNCHANGED <<frames, curr_size, current_timestamp, k>>]_vars

\* C10 witness: RecordAccess has just failed with InvalidFrameId on a replacer
\* that holds frames, one of them evictable.
C10_Witness ==
  /\ lru_ret.op = "RecordAccess"
  /\ lru_ret.status = "InvalidFrameId"
  /\ lru_ret.fid >= replacer_size
  /\ Size >= 1
  /\ current_timestamp >= 2

\* the step is a call of the replacer's Remove
RemoveStep == lru_ret'.op = "Remove" /\ (lru_ret' # lru_ret \/ frames' # frames)

\* C11: Remove(f) on a stored pinned frame fails with NonEvictableRemoval and
\* changes neither the record nor curr_size; on an unknown frame it changes
\* nothing; on a stored evictable frame it deletes exactly that record and
\* decrements Size() by one, whatever the frame's history.
C11_Remove ==
  [][RemoveStep =>
       LET f == lru_ret'.fid
       IN /\ (f \in DOMAIN frames /\ ~frames[f].is_evictable) =>
               /\ lru_ret'.status = "NonEvictableRemoval"
               /\ UNCHANGED <<frames, curr_size, current_timestamp>>
          /\ f \notin DOMAIN frames =>
               /\ lru_ret'.status = "ok"
               /\ UNCHANGED <<frames, curr_size, current_timestamp>>
          /\ (f \in DOMAIN frames /\ frames[f].is_evictable) =>
               /\ lru_ret'.status = "ok"
               /\ DOMAIN frames' = DOMAIN frames \ {f}
               /\ \A g \in DOMAIN frames' : frames'[g] = frames[g]
               /\ Size' = Size - 1
               /\ current_timestamp' = current_timestamp]_vars

\* C11 witness: Remove has just deleted the only evictable frame (every
\* timestamp handed out belongs to the other, pinned frame or to the deleted
\* one) and left a pinned frame with a full history behind.
C11_Witness ==
  /\ lru_ret.op = "Remove" /\ lru_ret.status = "ok"
  /\ lru_ret.fid \notin DOMAIN frames
  /\ k = 2
  /\ current_timestamp = 3
  /\ Size = 0
  /\ \E g \in DOMAIN frames : frames[g].history = <<0, 1>>

\* C12: for a frame id in range, SetEvictable(f, b) on a stored frame sets the
\* flag to b and changes curr_size by +1 or -1 exactly when the flag changes
\* (so a second call with the same b changes nothing); on a frame that is not
\* stored it creates no record and changes nothing.
C12_SetEvictable ==
  [][\A f \in FrameArgs, b \in BOOLEAN :
       (SetEvictable(f, b) /\ ~InvalidFrameId(f)) =>
         /\ current_timestamp' = current_timestamp
         /\ f \notin DOMAIN frames => UNCHANGED <<frames, curr_size>>
         /\ f \in DOMAIN frames =>
              /\ DOMAIN frames' = DOMAIN frames
              /\ frames'[f].is_evictable = b
              /\ frames'[f].history = frames[f].history
              /\ \A g \in DOMAIN frames \ {f} : frames'[g] = frames[g]
              /\ frames[f].is_evictable = b => UNCHANGED <<frames, curr_size>>
              /\ (~frames[f].is_evictable /\ b) => curr_size' = curr_size + 1
              /\ (frames[f].is_evictable /\ ~b) => curr_size' = curr_size - 1]_vars

\* C12 witness: SetEvictable has just been called on a stored frame that is
\* evictable now, while another stored frame is pinned.
C12_Witness ==
  /\ lru_ret.op = "SetEvictable" /\ lru_ret.status = "ok"
  /\ lru_ret.fid \in DOMAIN frames
  /\ frames[lru_ret.fid].is_evictable
  /\ Size = 1
  /\ Cardinality(DOMAIN frames) = 2

\* C13: under the latch no two RecordAccess calls append the same timestamp,
\* the timestamps appended increase strictly in the order the calls got the
\* latch, current_timestamp counts the RecordAccess calls that returned, and at
\* most one thread is inside an operation.
C13_LinearizedTimestamps ==
  /\ \A i, j \in 1..Len(ra_log) : i < j => ra_log[i] < ra_log[j]
  /\ current_timestamp = ra_done
  /\ \A t, u \in Threads : (tpc[t] = "pushed" /\ tpc[u] = "pushed") => t = u
  /\ \A t \in Threads : tpc[t] = "pushed" => latch = t

\* C13 witness: both threads have appended timestamps (the log holds three),
\* and the second thread is inside RecordAccess while the first one's calls
\* have returned.
C13_Witness ==
  /\ Len(ra_log) = 3
  /\ tpc[2] = "pushed"
  /\ ra_done = 2
  /\ \E f \in DOMAIN frames : frames[f].history = <<0, 2>>
  /\ \E f \in DOMAIN frames : frames[f].history = <<1>>

\* C14: right after a successful RecordAccess(f) the cached k_distance of f is
\* the maximum size_t if f has fewer than k history entries, and otherwise the
\* timestamp this call appended minus history.front(), the frame's k-th most
\* recent access.
C14_CachedKDistance ==
  (lru_ret.op = "RecordAccess" /\ lru_ret.status = "ok") =>
    LET frame == frames[lru_ret.fid]
    IN frame.k_distance =
         IF Len(frame.history) < k THEN SizeTMax
         ELSE (current_timestamp - 1) - Head(frame.history)

\* the bucket objects the directory references
DirBuckets == {dir[i] : i \in DOMAIN dir}

\* C15, step part: num_buckets changes only in a split, by exactly one, and
\* every split changes it.
C15_Step ==
  /\ num_buckets' # num_buckets =>
       /\ pc = "loop" /\ pc' = "loop"
       /\ IsFull(Target(cur_key))
       /\ num_buckets' = num_buckets + 1
  /\ (pc = "loop" /\ pc' = "loop" /\ dir' # dir) =>
       /\ num_buckets' = num_buckets + 1
       /\ Cardinality(DirBuckets') = Cardinality(DirBuckets) + 1

\* C15: GetNumBuckets() starts at 1, always equals the number of distinct
\* buckets the directory references, grows by one with every single split and
\* is left alone by Find, Remove and an Insert without a split.
C15_BucketCount ==
  /\ num_buckets = 1
  /\ [](num_buckets = Cardinality(DirBuckets))
  /\ [][C15_Step]_vars

\* C15 witness: an Insert has finished with three buckets, one of which is
\* empty (a split gave one side nothing), and the table holds two keys only.
C15_Witness ==
  /\ pc = "idle"
  /\ ht_ret.op = "Insert"
  /\ num_buckets = 3
  /\ \E i \in DOMAIN dir : buckets[dir[i]].list = <<>>
  /\ Cardinality({key \in Keys : shadow[key] # 0}) = 2

\* the pairs stored in the buckets of table bs
StoredPairs(bs) ==
  UNION {{bs[id].list[p] : p \in 1..Len(bs[id].list)} : id \in DOMAIN bs}

\* C16, state part: no bucket is over capacity; the redistribution the loop is
\* about to run places every item of the full bucket (none of its
\* Bucket::Insert calls returns false); the final Bucket::Insert of a new key
\* returns true.
C16_State ==
  /\ \A id \in DOMAIN buckets : Len(buckets[id].list) <= bucket_size
  /\ (pc = "loop" /\ IsFull(Target(cur_key))) =>
       LET b == Target(cur_key)
           nbs == Redistribute(b.list, Pow2(b.depth),
                               NewBucket(b.depth + 1), NewBucket(b.depth + 1))
       IN Len(nbs[1].list) + Len(nbs[2].list) = Len(b.list)
  /\ (pc = "loop" /\ ~IsFull(Target(cur_key))
        /\ FirstPos(Target(cur_key).list, cur_key) = 0) =>
       BucketInsert(Target(cur_key), cur_key, cur_val).ok

\* C16, step part: a split keeps exactly the stored pairs, and the Insert that
\* returns has stored its pair.
C16_Step ==
  /\ (pc = "loop" /\ pc' = "loop") =>
       StoredPairs(buckets') = StoredPairs(buckets)
  /\ (pc = "loop" /\ pc' = "idle") =>
       /\ <<cur_key, cur_val>> \in StoredPairs(buckets')
       /\ StoredPairs(buckets') =
            {it \in StoredPairs(buckets) : it[1] # cur_key}
              \cup {<<cur_key, cur_val>>}

\* C16: every bucket holds at most bucket_size items and no Bucket::Insert
\* call made by Insert (redistribution or final insert) returns false, so no
\* pair is ever dropped silently.
C16_NoSilentLoss == []C16_State /\ [][C16_Step]_vars

\* C16 witness: with bucket_size 2 an Insert has returned after a split, all
\* three keys are stored and one bucket is filled to capacity.
C16_Witness ==
  /\ pc = "idle"
  /\ ht_ret.op = "Insert"
  /\ bucket_size = 2
  /\ num_buckets >= 2
  /\ \A key \in Keys : FindResult(key).found
  /\ \E id \in DOMAIN buckets : IsFull(buckets[id])

\* C17, step part: what a returning Remove and a returning Find did
C17_Step ==
  /\ (pc = "idle" /\ pc' = "idle" /\ ht_ret'.op = "Remove") =>
       \A key \in Keys : ht_ret'.key = key =>
         /\ ht_ret'.found = FindResult(key).found
         /\ ~(FindResult(key).found)'
         /\ \A other \in Keys \ {key} : FindResult(other)' = FindResult(other)
         /\ global_depth' = global_depth
         /\ dir' = dir
         /\ num_buckets' = num_buckets
         /\ DOMAIN buckets' = DOMAIN buckets
         /\ \A id \in DOMAIN buckets : buckets'[id].depth = buckets[id].depth
         /\ ~FindResult(key).found => buckets' = buckets
  /\ (pc = "idle" /\ pc' = "idle" /\ ht_ret'.op = "Find") =>
       /\ UNCHANGED <<global_depth, num_buckets, dir, buckets>>
       /\ \A key \in Keys : ht_ret'.key = key =>
            /\ ht_ret'.found = FindResult(key).found
            /\ ht_ret'.found => ht_ret'.value = FindResult(key).value

\* C17: Remove(k) returns true exactly when k was stored; afterwards Find(k)
\* reports not found and every other key keeps its value; Remove never changes
\* global_depth, the directory, a local depth or the bucket count; Remove of
\* an absent key and every Find leave the table unchanged.
C17_RemoveFrame == [][C17_Step]_vars

\* C17 witness: Remove has returned true and left an empty bucket in a
\* directory of several buckets that still holds another key.
C17_Witness ==
  /\ pc = "idle"
  /\ ht_ret.op = "Remove"
  /\ ht_ret.found
  /\ num_buckets >= 2
  /\ buckets[dir[IndexOf(global_depth, ht_ret.key)]].list = <<>>
  /\ \E other \in Keys \ {ht_ret.key} : FindResult(other).found

\* the timestamps of a history, as a set
Stamps(history) == {history[p] : p \in 1..Len(history)}

\* C18, state part: the shape of every stored history
C18_State ==
  /\ \A f \in DOMAIN frames :
       LET history == frames[f].history
       IN /\ Len(history) >= 1
          /\ Len(history) <= k
          /\ \A p \in 1..(Len(history) - 1) : history[p] < history[p + 1]
          /\ \A t \in Stamps(history) : t < current_timestamp
  /\ \A f, g \in DOMAIN frames :
       f # g => Stamps(frames[f].history) \cap Stamps(frames[g].history) = {}

\* C18, step part: a successful RecordAccess appends the current timestamp and
\* drops exactly the oldest entry when the history already had k entries.
C18_Step ==
  (lru_ret'.op = "RecordAccess" /\ lru_ret'.status = "ok"
     /\ current_timestamp' = current_timestamp + 1) =>
    \A f \in 0..(NumFrames - 1) : lru_ret'.fid = f =>
      LET old == IF f \in DOMAIN frames THEN frames[f].history ELSE <<>>
      IN /\ f \in DOMAIN frames'
         /\ frames'[f].history =
              IF Len(old) = k THEN Append(Tail(old), current_timestamp)
              ELSE Append(old, current_timestamp)

\* C18: every stored history is non-empty, has at most k timestamps, is
\* strictly increasing, lies below current_timestamp and shares no timestamp
\* with another frame's history; a RecordAccess that would exceed k entries
\* discards exactly the oldest one.
C18_HistoryShape == []C18_State /\ [][C18_Step]_vars

\* C18 witness: a RecordAccess has just cut a history back to k = 2 entries
\* (its oldest remaining entry is not the frame's first access) while another
\* frame is stored as well.
C18_Witness ==
  /\ k = 2
  /\ lru_ret.op = "RecordAccess"
  /\ lru_ret.status = "ok"
  /\ lru_ret.fid \in DOMAIN frames
  /\ Len(frames[lru_ret.fid].history) = k
  /\ frames[lru_ret.fid].history[k] = current_timestamp - 1
  /\ \E t \in 0..MaxTime : t < Head(frames[lru_ret.fid].history)
                             /\ \A g \in DOMAIN frames : t \notin Stamps(frames[g].history)
  /\ Cardinality(DOMAIN frames) = 2

\* C19, step part
C19_Step ==
  /\ (lru_ret'.op = "RecordAccess" /\ lru_ret'.status = "ok"
        /\ current_timestamp' = current_timestamp + 1) =>
       \A f \in 0..(NumFrames - 1) : lru_ret'.fid = f =>
         /\ f \in DOMAIN frames'
         /\ curr_size' = curr_size
         /\ IF f \in DOMAIN frames
            THEN frames'[f].is_evictable = frames[f].is_evictable
            ELSE /\ ~frames'[f].is_evictable
                 /\ frames'[f].history = <<current_timestamp>>
  /\ \A f \in DOMAIN frames :
       f \notin DOMAIN frames' =>
         /\ frames[f].is_evictable
         /\ \/ lru_ret'.op = "Remove" /\ lru_ret'.status = "ok" /\ lru_ret'.fid = f
            \/ lru_ret'.op = "Evict" /\ lru_ret'.status = "ok" /\ lru_ret'.victim = f
  /\ (lru_ret'.op = "Remove" /\ lru_ret'.status = "ok"
        /\ curr_size' # curr_size) =>
       lru_ret'.fid \in DOMAIN frames /\ lru_ret'.fid \notin DOMAIN frames'
  /\ (lru_ret'.op = "Evict" /\ lru_ret'.status = "ok"
        /\ curr_size' # curr_size) =>
       lru_ret'.victim \in DOMAIN frames /\ lru_ret'.victim \notin DOMAIN frames'

\* C19: the first RecordAccess(f) creates f pinned with a one-entry history
\* and leaves Size() alone; RecordAccess on a stored frame keeps its flag and
\* Size(); a frame leaves the stored set only through a Remove of it or an
\* Evict that chose it, and only while evictable; afterwards it is unknown,
\* and the next RecordAccess(f) creates it afresh.
C19_Lifecycle == [][C19_Step]_vars

\* C19 witness: with k = 2, frame f was accessed at time 1, left the stored
\* set, and has just been created again by RecordAccess at time 2: pinned,
\* with the one-entry history <<2>>, next to a frame whose history is <<0>>.
C19_Witness ==
  /\ k = 2
  /\ current_timestamp = 3
  /\ lru_ret.op = "RecordAccess"
  /\ lru_ret.status = "ok"
  /\ lru_ret.fid \in DOMAIN frames
  /\ frames[lru_ret.fid].history = <<2>>
  /\ ~frames[lru_ret.fid].is_evictable
  /\ \E g \in DOMAIN frames \ {lru_ret.fid} : frames[g].history = <<0>>

\* C20: for every signed frame_id given to RecordAccess and SetEvictable,
\* every stored frame id lies in 0..replacer_size-1, and whenever Size() > 0
\* the scan of Evict ends, in every iteration order, on the id of a stored
\* evictable frame that is not the "no victim" value -1, so Evict returns true.
C20_SignedFrameIdRange ==
  /\ \A f \in DOMAIN frames : f \in 0..(replacer_size - 1)
  /\ curr_size > 0 =>
       \A order \in Orders(DOMAIN frames) :
         LET victim_id == EvictScan(order).victim_id
         IN /\ victim_id # -1
            /\ victim_id \in DOMAIN frames
            /\ frames[victim_id].is_evictable
  /\ (lru_ret.op = "Evict" /\ lru_ret.status = "false") => curr_size = 0

====
